---------------------------- MODULE Spec2Model ----------------------------
(***************************************************************************)
(* A model of find_possible_prokaryotic_promoters.py: the fuzzy motif      *)
(* scorer (fuzzy_match) and the dual-motif window scanner                  *)
(* (find_possible_prokaryotic_sequences).                                  *)
(*                                                                         *)
(* Strings are sequences of one-character strings.  Offsets are 0-based as *)
(* in the source; Slice and CharAt translate them to TLA+'s 1-based        *)
(* sequences.                                                              *)
(***************************************************************************)
EXTENDS Integers, Sequences, FiniteSets

VARIABLES
    input_dna_sequence,         \* argument of the scanner
    threshold,                  \* argument of the scanner
    pc,                         \* position in the scanner: "for", "while", "done", "raised", "idle"
    index,                      \* the for loop's variable
    next_index,                 \* the while loop's variable
    num_matching_nucleotides,   \* score of the -35 window at index
    next_matching_nucleotides,  \* score of the -10 window last examined
    possible_promoters,         \* the dict of three parallel lists
    calls,                      \* number of scans started on input_dna_sequence
    previous_positions,         \* "positions" returned by the scan before this one
    string1,                    \* first argument of a direct fuzzy_match call
    string2,                    \* second argument of a direct fuzzy_match call
    fm_pc,                      \* "call", "returned", "raised", "idle"
    matching_nucleotides        \* value returned by the direct fuzzy_match call

vars == <<input_dna_sequence, threshold, pc, index, next_index,
          num_matching_nucleotides, next_matching_nucleotides,
          possible_promoters, calls, previous_positions,
          string1, string2, fm_pc, matching_nucleotides>>

scan_vars == <<input_dna_sequence, threshold, pc, index, next_index,
               num_matching_nucleotides, next_matching_nucleotides,
               possible_promoters, calls, previous_positions>>

fuzzy_vars == <<string1, string2, fm_pc, matching_nucleotides>>

---------------------------------------------------------------------------
(* Program constants *)

SEQUENCE_10 == <<"T", "A", "T", "A", "A", "T">>

SEQUENCE_35 == <<"T", "T", "G", "A", "C", "A">>

\* "Please enter a threshold in the range of 8-12 matching nucleotides"
ThresholdLow == 8

ThresholdHigh == 12

---------------------------------------------------------------------------
(* Python string primitives *)

Min(a, b) == IF a < b THEN a ELSE b

\* s[lo:hi] for 0 <= lo: the slice is clamped to the end of s
Slice(s, lo, hi) == SubSeq(s, lo + 1, Min(hi, Len(s)))

\* s[i] for an offset i that is in range
CharAt(s, i) == s[i + 1]

\* str.upper() on one character
UpperChar(c) ==
    CASE c = "a" -> "A"
      [] c = "c" -> "C"
      [] c = "g" -> "G"
      [] c = "t" -> "T"
      [] c = "n" -> "N"
      [] c = "r" -> "R"
      [] c = "y" -> "Y"
      [] OTHER -> c

\* str.upper()
Upper(s) == [k \in 1..Len(s) |-> UpperChar(s[k])]

---------------------------------------------------------------------------
(* fuzzy_match *)

\* The mutant of NucleotideMatches in which the code N is not handled.
NucleotideMatchesNoN(c1, c2) ==
    \/ c1 = c2
    \/ c2 = "R" /\ c1 \in {"A", "Y"}
    \/ c2 = "Y" /\ c1 \in {"C", "T"}
    \/ c2 = "S" /\ c1 \in {"C", "G"}
    \/ c2 = "W" /\ c1 \in {"A", "T"}
    \/ c2 = "K" /\ c1 \in {"G", "T"}
    \/ c2 = "M" /\ c1 \in {"A", "C"}
    \/ c2 = "B" /\ c1 \in {"C", "G", "T"}
    \/ c2 = "V" /\ c1 \in {"A", "C", "G"}
    \/ c2 = "D" /\ c1 \in {"A", "G", "T"}
    \/ c2 = "H" /\ c1 \in {"A", "C", "T"}

\* One pass of the if/elif chain: TRUE when matching_nucleotides is
\* incremented for string1[index] = c1 and string2[index] = c2.
NucleotideMatches(c1, c2) ==
    IF c1 = c2 THEN TRUE
    ELSE IF c2 = "R" THEN c1 = "A" \/ c1 = "Y"
    ELSE IF c2 = "Y" THEN c1 = "C" \/ c1 = "T"
    ELSE IF c2 = "S" THEN c1 = "C" \/ c1 = "G"
    ELSE IF c2 = "W" THEN c1 = "A" \/ c1 = "T"
    ELSE IF c2 = "K" THEN c1 = "G" \/ c1 = "T"
    ELSE IF c2 = "M" THEN c1 = "A" \/ c1 = "C"
    ELSE IF c2 = "B" THEN c1 = "C" \/ c1 = "G" \/ c1 = "T"
    ELSE IF c2 = "V" THEN c1 = "A" \/ c1 = "C" \/ c1 = "G"
    ELSE IF c2 = "D" THEN c1 = "A" \/ c1 = "G" \/ c1 = "T"
    ELSE IF c2 = "H" THEN c1 = "A" \/ c1 = "C" \/ c1 = "T"
    ELSE IF c2 = "N" THEN TRUE
    ELSE FALSE

\* The outcome of a call: a returned count, or the IndexError that
\* string2[index] raises when index is past the end of string2.
Returned(n) == [raised |-> FALSE, value |-> n]

IndexError == [raised |-> TRUE, value |-> 0]

RECURSIVE FuzzyLoopChecked(_, _, _, _)
\* The mutant of FuzzyLoop that stops at the end of the shorter string.
FuzzyLoopChecked(s1, s2, i, count) ==
    IF i >= Len(s1) \/ i >= Len(s2) THEN Returned(count)
    ELSE FuzzyLoopChecked(s1, s2, i + 1,
             IF NucleotideMatches(CharAt(s1, i), CharAt(s2, i))
             THEN count + 1 ELSE count)

RECURSIVE FuzzyLoop(_, _, _, _)
\* for index in range(0, len(string1)), from index = i with
\* matching_nucleotides = count
FuzzyLoop(s1, s2, i, count) ==
    IF i >= Len(s1) THEN Returned(count)
    ELSE IF i >= Len(s2) THEN IndexError
    ELSE FuzzyLoop(s1, s2, i + 1,
             IF NucleotideMatches(CharAt(s1, i), CharAt(s2, i))
             THEN count + 1 ELSE count)

fuzzy_match(s1, s2) == FuzzyLoop(Upper(s1), Upper(s2), 0, 0)

---------------------------------------------------------------------------
(* find_possible_prokaryotic_sequences *)

EmptyPromoters == [positions |-> <<>>, sequences |-> <<>>, scores |-> <<>>]

\* x in list
InList(x, list) == \E k \in 1..Len(list) : list[k] = x

\* range(0, len(input_dna_sequence) - 5) still holds i
ForGuard(seq, i) == i < Len(seq) - 5

\* if num_matching_nucleotides >= 4
IsAnchor(score35) == score35 >= 4

\* next_index = index + 21
FirstNextIndex(i) == i + 21

\* The mutant of WhileGuard that examines every full window up to the end.
WhileGuardToEnd(seq, i, j) == j < Len(seq) - 5 /\ j < i + 31

\* while next_index < len(input_dna_sequence) - 11 and next_index < index + 31
WhileGuard(seq, i, j) == j < Len(seq) - 11 /\ j < i + 31

\* The mutant of Admits that compares the threshold the wrong way round.
AdmitsBelow(score35, score10, t) == score10 >= 4 /\ score35 + score10 <= t

\* The mutant of Admits without the -10 sub-threshold.
AdmitsNoSubThreshold(score35, score10, t) == score35 + score10 >= t

\* if next_matching_nucleotides >= 4 and
\*    num_matching_nucleotides + next_matching_nucleotides >= threshold
Admits(score35, score10, t) == score10 >= 4 /\ score35 + score10 >= t

Append3(pp, i, span, score) ==
    [positions |-> Append(pp.positions, i),
     sequences |-> Append(pp.sequences, span),
     scores    |-> Append(pp.scores, score)]

\* The mutant of Record without the membership test.
RecordAlways(pp, i, span, score) == Append3(pp, i, span, score)

\* The mutant of Record in which a later match replaces the entry of i.
RecordLast(pp, i, span, score) ==
    IF ~InList(i, pp.positions) THEN Append3(pp, i, span, score)
    ELSE [positions |-> pp.positions,
          sequences |-> [k \in 1..Len(pp.sequences) |->
                           IF pp.positions[k] = i THEN span ELSE pp.sequences[k]],
          scores    |-> [k \in 1..Len(pp.scores) |->
                           IF pp.positions[k] = i THEN score ELSE pp.scores[k]]]

\* if index not in possible_promoters["positions"]: the three appends
Record(pp, i, span, score) ==
    IF ~InList(i, pp.positions) THEN Append3(pp, i, span, score) ELSE pp

\* Entry of the function: the arguments and the empty dict.
Call(seq, t) ==
    /\ input_dna_sequence' = seq
    /\ threshold' = t
    /\ pc' = "for"
    /\ index' = 0
    /\ next_index' = 0
    /\ num_matching_nucleotides' = 0
    /\ next_matching_nucleotides' = 0
    /\ possible_promoters' = EmptyPromoters

\* One pass of the for loop's head: score the -35 window at index, and
\* either enter the while loop or go on to the next index.
\* (index holds the value the range yields next, so it is len - 5, or 0,
\* where Python leaves the last value yielded once the loop has ended.)
ForIter ==
    /\ pc = "for"
    /\ ForGuard(input_dna_sequence, index)
    /\ LET r == fuzzy_match(SEQUENCE_35, Slice(input_dna_sequence, index, index + 6))
       IN IF r.raised
          THEN /\ pc' = "raised"
               /\ UNCHANGED <<index, next_index, num_matching_nucleotides>>
          ELSE /\ num_matching_nucleotides' = r.value
               /\ IF IsAnchor(r.value)
                  THEN /\ next_index' = FirstNextIndex(index)
                       /\ pc' = "while"
                       /\ index' = index
                  ELSE /\ index' = index + 1
                       /\ pc' = "for"
                       /\ next_index' = next_index
    /\ UNCHANGED <<input_dna_sequence, threshold, next_matching_nucleotides,
                   possible_promoters, calls, previous_positions, fuzzy_vars>>

\* One pass of the while loop's body.
WhileIter ==
    /\ pc = "while"
    /\ WhileGuard(input_dna_sequence, index, next_index)
    /\ LET r == fuzzy_match(SEQUENCE_10, Slice(input_dna_sequence, next_index, next_index + 6))
       IN IF r.raised
          THEN /\ pc' = "raised"
               /\ UNCHANGED <<next_index, next_matching_nucleotides, possible_promoters>>
          ELSE /\ next_matching_nucleotides' = r.value
               /\ possible_promoters' =
                    IF Admits(num_matching_nucleotides, r.value, threshold)
                    THEN Record(possible_promoters, index,
                                Slice(input_dna_sequence, index, next_index + 6),
                                num_matching_nucleotides + r.value)
                    ELSE possible_promoters
               /\ next_index' = next_index + 1
               /\ pc' = "while"
    /\ UNCHANGED <<input_dna_sequence, threshold, index, num_matching_nucleotides,
                   calls, previous_positions, fuzzy_vars>>

\* The while condition is false: the for loop takes the next index.
WhileExit ==
    /\ pc = "while"
    /\ ~WhileGuard(input_dna_sequence, index, next_index)
    /\ index' = index + 1
    /\ pc' = "for"
    /\ UNCHANGED <<input_dna_sequence, threshold, next_index,
                   num_matching_nucleotides, next_matching_nucleotides,
                   possible_promoters, calls, previous_positions, fuzzy_vars>>

\* The range is exhausted: return possible_promoters.
Return ==
    /\ pc = "for"
    /\ ~ForGuard(input_dna_sequence, index)
    /\ pc' = "done"
    /\ UNCHANGED <<input_dna_sequence, threshold, index, next_index,
                   num_matching_nucleotides, next_matching_nucleotides,
                   possible_promoters, calls, previous_positions, fuzzy_vars>>

---------------------------------------------------------------------------
(* Inputs of the scanner *)

MaxMismatch == 3

MinSpacer == 14

MaxSpacer == 25

MaxTail == 7

MaxGap == 2

ThresholdSlack == 1

MaxCalls == 2

\* n copies of the character c
Fill(c, n) == [k \in 1..n |-> c]

\* The motif with its first n characters replaced by "C", which matches
\* neither consensus at those offsets.
Degrade(motif, n) == [k \in 1..Len(motif) |-> IF k <= n THEN "C" ELSE motif[k]]

Spacers == MinSpacer..MaxSpacer

\* A -35 site and a -10 site, each with up to MaxMismatch mismatches, every
\* spacer length, and room for the -10 window before the end.
SitePairs ==
    {Degrade(SEQUENCE_35, a) \o Fill("C", s) \o Degrade(SEQUENCE_10, b) \o Fill("C", 6) :
        a \in 0..MaxMismatch, b \in 0..MaxMismatch, s \in Spacers}

\* Exact sites followed by 0..MaxTail further characters.
SitesNearEnd ==
    {SEQUENCE_35 \o Fill("C", s) \o SEQUENCE_10 \o Fill("C", t) :
        s \in Spacers, t \in 0..MaxTail}

\* One -35 site with two -10 sites downstream, the nearer one degraded.
TwoMinus10Sites ==
    {SEQUENCE_35 \o Fill("C", s) \o Degrade(SEQUENCE_10, b) \o Fill("C", g)
        \o SEQUENCE_10 \o Fill("C", 6) :
        s \in Spacers, b \in 0..MaxMismatch, g \in 0..MaxGap}

\* Two -35 sites upstream of one -10 site.
TwoMinus35Sites ==
    {Fill("C", g) \o SEQUENCE_35 \o Fill("C", g) \o Degrade(SEQUENCE_35, a)
        \o Fill("C", s) \o SEQUENCE_10 \o Fill("C", 6) :
        g \in 0..MaxGap, a \in 0..MaxMismatch, s \in Spacers}

\* The sequence of the docstring of print_promoter_sequences.
DocPromoter ==
    SEQUENCE_35 \o <<"T", "G", "T">> \o Fill("A", 15) \o SEQUENCE_10

Lower(s) ==
    [k \in 1..Len(s) |->
        CASE s[k] = "A" -> "a" [] s[k] = "C" -> "c"
          [] s[k] = "G" -> "g" [] s[k] = "T" -> "t" [] OTHER -> s[k]]

Scenarios ==
    {DocPromoter,
     Fill("C", 3) \o DocPromoter \o Fill("C", 6),
     Lower(Fill("C", 3) \o DocPromoter) \o Fill("C", 6),
     SEQUENCE_35 \o SEQUENCE_35 \o Fill("C", 15) \o <<"T", "A">> \o SEQUENCE_10
        \o Fill("C", 6),
     <<"A", "C", "G">>,
     <<>>,
     Fill("A", 40)}

Inputs == SitePairs \cup SitesNearEnd \cup TwoMinus10Sites \cup TwoMinus35Sites
            \cup Scenarios

Thresholds == (ThresholdLow - ThresholdSlack)..(ThresholdHigh + ThresholdSlack)

FuzzyIdle ==
    /\ string1 = <<>>
    /\ string2 = <<>>
    /\ fm_pc = "idle"
    /\ matching_nucleotides = 0

Init ==
    /\ input_dna_sequence \in Inputs
    /\ threshold \in Thresholds
    /\ pc = "for"
    /\ index = 0
    /\ next_index = 0
    /\ num_matching_nucleotides = 0
    /\ next_matching_nucleotides = 0
    /\ possible_promoters = EmptyPromoters
    /\ calls = 1
    /\ previous_positions = <<>>
    /\ FuzzyIdle

\* The caller scans the same sequence again with a higher threshold.
CallAgain ==
    /\ pc = "done"
    /\ calls < MaxCalls
    /\ \E t \in Thresholds :
        /\ t > threshold
        /\ Call(input_dna_sequence, t)
    /\ calls' = calls + 1
    /\ previous_positions' = possible_promoters.positions
    /\ UNCHANGED fuzzy_vars

Next == ForIter \/ WhileIter \/ WhileExit \/ Return

Spec == Init /\ [][Next]_vars

NextMono == ForIter \/ WhileIter \/ WhileExit \/ Return \/ CallAgain

SpecMono == Init /\ [][NextMono]_vars

---------------------------------------------------------------------------
(* Direct calls of fuzzy_match *)

MaxStrLen == 2

Nucleotides == {"A", "C", "G", "T"}

AmbiguityCodes == {"R", "Y", "S", "W", "K", "M", "B", "V", "D", "H", "N"}

StringsOver(alphabet, n) == UNION {[1..m -> alphabet] : m \in 0..n}

\* Calls with the arguments the scenarios name, and calls on lower case.
FuzzyScenarios ==
    {<<Fill("A", 6), Fill("N", 6)>>,
     <<Fill("A", 6), SEQUENCE_35>>,
     <<Lower(SEQUENCE_35), SEQUENCE_35>>,
     <<Lower(SEQUENCE_10), Lower(Fill("N", 6))>>,
     <<SEQUENCE_10, Fill("W", 3)>>,
     <<Fill("A", 3), SEQUENCE_10>>}

FuzzyInputs ==
    (StringsOver(Nucleotides, MaxStrLen)
        \X StringsOver(Nucleotides \cup AmbiguityCodes, MaxStrLen))
    \cup FuzzyScenarios

ScanIdle ==
    /\ input_dna_sequence = <<>>
    /\ threshold = 0
    /\ pc = "idle"
    /\ index = 0
    /\ next_index = 0
    /\ num_matching_nucleotides = 0
    /\ next_matching_nucleotides = 0
    /\ possible_promoters = EmptyPromoters
    /\ calls = 0
    /\ previous_positions = <<>>

InitFuzzy ==
    /\ \E args \in FuzzyInputs :
        /\ string1 = args[1]
        /\ string2 = args[2]
    /\ fm_pc = "call"
    /\ matching_nucleotides = 0
    /\ ScanIdle

\* The call returns matching_nucleotides.
FuzzyReturn ==
    /\ fm_pc = "call"
    /\ ~fuzzy_match(string1, string2).raised
    /\ matching_nucleotides' = fuzzy_match(string1, string2).value
    /\ fm_pc' = "returned"
    /\ UNCHANGED <<string1, string2, scan_vars>>

\* The call ends in the IndexError of string2[index].
FuzzyRaise ==
    /\ fm_pc = "call"
    /\ fuzzy_match(string1, string2).raised
    /\ fm_pc' = "raised"
    /\ UNCHANGED <<string1, string2, matching_nucleotides, scan_vars>>

NextFuzzy == FuzzyReturn \/ FuzzyRaise

SpecFuzzy == InitFuzzy /\ [][NextFuzzy]_vars

---------------------------------------------------------------------------
(* Properties of the scanner *)

Score35(i) ==
    fuzzy_match(SEQUENCE_35, Slice(input_dna_sequence, i, i + 6)).value

Score10(j) ==
    fuzzy_match(SEQUENCE_10, Slice(input_dna_sequence, j, j + 6)).value

\* The downstream offsets of the -35 start i that the claims call qualifying:
\* inside the search window, with score10 >= 4 and the sum at the threshold.
Qualifying(i) ==
    {j \in (i + 21)..(i + 30) :
        /\ j < Len(input_dna_sequence) - 11
        /\ Score10(j) >= 4
        /\ Score35(i) + Score10(j) >= threshold}

Candidates == 1..Len(possible_promoters.positions)

\* C1: every recorded candidate with start i was admitted at some j with
\* i+21 <= j < i+31 and j < L-11, score35 >= 4, score10 >= 4,
\* score35 + score10 >= threshold; its score is score35 + score10 and its
\* span is sequence[i:j+6], of length (j - i) + 6.
C1_CandidateAdmittedInWindow ==
    /\ Len(possible_promoters.sequences) = Len(possible_promoters.positions)
    /\ Len(possible_promoters.scores) = Len(possible_promoters.positions)
    /\ \A k \in Candidates :
        LET i == possible_promoters.positions[k]
        IN \E j \in (i + 21)..(i + 30) :
            /\ j < Len(input_dna_sequence) - 11
            /\ Score35(i) >= 4
            /\ Score10(j) >= 4
            /\ Score35(i) + Score10(j) >= threshold
            /\ possible_promoters.scores[k] = Score35(i) + Score10(j)
            /\ possible_promoters.sequences[k] = SubSeq(input_dna_sequence, i + 1, j + 6)
            /\ Len(possible_promoters.sequences[k]) = (j - i) + 6

\* A returned candidate that starts after offset 0, has a degraded site and
\* scores exactly the threshold.
C1_Witness ==
    /\ pc = "done"
    /\ \E k \in Candidates :
        /\ possible_promoters.positions[k] > 0
        /\ possible_promoters.scores[k] = threshold
        /\ possible_promoters.scores[k] < 12

\* C2: after every step and in the returned result the list of start
\* positions is strictly increasing.
C2_PositionsStrictlyIncreasing ==
    \A k \in Candidates :
        \A m \in Candidates :
            k < m => possible_promoters.positions[k] < possible_promoters.positions[m]

\* A returned result with two candidates, the first of which had more than
\* one qualifying downstream offset.
C2_Witness ==
    /\ pc = "done"
    /\ Len(possible_promoters.positions) >= 2
    /\ Cardinality(Qualifying(possible_promoters.positions[1])) >= 2

\* C3: the one candidate kept for a start i is built from the smallest
\* qualifying j of i's window, whatever the later qualifying j score.
C3_FirstQualifyingOffsetWins ==
    \A k \in Candidates :
        LET i == possible_promoters.positions[k]
            Q == Qualifying(i)
        IN /\ Q # {}
           /\ LET first == CHOOSE j \in Q : \A j2 \in Q : j <= j2
              IN /\ possible_promoters.sequences[k] = SubSeq(input_dna_sequence, i + 1, first + 6)
                 /\ possible_promoters.scores[k] = Score35(i) + Score10(first)
           /\ Cardinality({m \in Candidates : possible_promoters.positions[m] = i}) = 1

\* A returned candidate whose window holds a later qualifying offset that
\* scores higher than the recorded one.
C3_Witness ==
    /\ pc = "done"
    /\ \E k \in Candidates :
        LET i == possible_promoters.positions[k]
        IN \E j \in Qualifying(i) :
            /\ Score35(i) + Score10(j) > possible_promoters.scores[k]
            /\ j + 6 - i > Len(possible_promoters.sequences[k])

\* C4: scanning the same sequence with a higher threshold returns start
\* positions that are all among those of the scan with the lower threshold,
\* and so no more of them.
C4_HigherThresholdSubset ==
    calls > 1 =>
        /\ \A k \in Candidates :
            InList(possible_promoters.positions[k], previous_positions)
        /\ Len(possible_promoters.positions) <= Len(previous_positions)

\* The second scan returned some, but not all, of the first scan's starts.
C4_Witness ==
    /\ calls > 1
    /\ pc = "done"
    /\ Len(possible_promoters.positions) > 0
    /\ Len(possible_promoters.positions) < Len(previous_positions)

\* C5: scanning "TTGACATGTAAAAAAAAAAAAAAATATAAT" with threshold 8 returns
\* exactly one candidate: start 0, score 12, span the whole input.
C5_DocPromoterAloneIsFound ==
    (pc = "done" /\ input_dna_sequence = DocPromoter /\ threshold = 8) =>
        /\ possible_promoters.positions = <<0>>
        /\ possible_promoters.scores = <<12>>
        /\ possible_promoters.sequences = <<DocPromoter>>

\* C9: for every candidate the spacer j - (i+6) between the end of the -35
\* window and the start of the matched -10 window is at least 16 and at
\* most 24; the span runs from i to j+6, so the spacer is its length less
\* the two windows.
C9_SpacerFrom16To24 ==
    \A k \in Candidates :
        LET spacer == Len(possible_promoters.sequences[k]) - 6 - 6
        IN spacer >= 16 /\ spacer <= 24

---------------------------------------------------------------------------
(* Properties of fuzzy_match *)

\* The subsets of the table of ambiguity codes.
TableSubset(code) ==
    CASE code = "R" -> {"A", "G"}
      [] code = "Y" -> {"C", "T"}
      [] code = "S" -> {"C", "G"}
      [] code = "W" -> {"A", "T"}
      [] code = "K" -> {"G", "T"}
      [] code = "M" -> {"A", "C"}
      [] code = "B" -> {"C", "G", "T"}
      [] code = "V" -> {"A", "C", "G"}
      [] code = "D" -> {"A", "G", "T"}
      [] code = "H" -> {"A", "C", "T"}
      [] code = "N" -> {"A", "C", "G", "T"}
      [] OTHER -> {}

IsOver(s, alphabet) == \A k \in 1..Len(s) : s[k] \in alphabet

\* C6: for an observed string over {A,C,G,T} and a pattern of the same
\* length over the 15 codes, the call returns the number of positions where
\* the observed symbol equals the pattern symbol or is in the pattern
\* code's subset of the table.
C6_CountFollowsTable ==
    (/\ fm_pc # "call"
     /\ Len(string1) = Len(string2)
     /\ IsOver(string1, Nucleotides)
     /\ IsOver(string2, Nucleotides \cup AmbiguityCodes)) =>
        /\ fm_pc = "returned"
        /\ matching_nucleotides =
             Cardinality({k \in 1..Len(string1) :
                 string1[k] = string2[k] \/ string1[k] \in TableSubset(string2[k])})

\* C7: the call on "AAAAAA" and "NNNNNN" returns 6, the call on "AAAAAA"
\* and the -35 consensus "TTGACA" returns 0.
C7_AllAAgainstConsensusIsZero ==
    /\ (fm_pc # "call" /\ string1 = Fill("A", 6) /\ string2 = Fill("N", 6)) =>
           (fm_pc = "returned" /\ matching_nucleotides = 6)
    /\ (fm_pc # "call" /\ string1 = Fill("A", 6) /\ string2 = SEQUENCE_35) =>
           (fm_pc = "returned" /\ matching_nucleotides = 0)

\* C7, amended: the call on "AAAAAA" and "NNNNNN" returns 6, the call on
\* "AAAAAA" and "TTGACA" returns 2 (the two A of the consensus).
C7_AllAAgainstConsensusIsTwo ==
    /\ (fm_pc # "call" /\ string1 = Fill("A", 6) /\ string2 = Fill("N", 6)) =>
           (fm_pc = "returned" /\ matching_nucleotides = 6)
    /\ (fm_pc # "call" /\ string1 = Fill("A", 6) /\ string2 = SEQUENCE_35) =>
           (fm_pc = "returned" /\ matching_nucleotides = 2)

\* The call on "AAAAAA" and "TTGACA" has returned.
C7_Witness ==
    /\ fm_pc = "returned"
    /\ string1 = Fill("A", 6)
    /\ string2 = <<"T", "T", "G", "A", "C", "A">>

\* C8: a call whose arguments differ in length ends in an error and never
\* returns a count.
C8_LengthMismatchRaises ==
    (fm_pc # "call" /\ Len(string1) # Len(string2)) => fm_pc = "raised"

\* C8, amended: a call whose first argument is the longer one ends in an
\* error; a call whose first argument is the shorter one returns the number
\* of matches over the first len(string1) positions.
C8_OnlyLongerFirstRaises ==
    /\ (fm_pc # "call" /\ Len(string1) > Len(string2)) => fm_pc = "raised"
    /\ (fm_pc # "call" /\ Len(string1) < Len(string2)) =>
           /\ fm_pc = "returned"
           /\ matching_nucleotides =
                Cardinality({k \in 1..Len(string1) :
                    NucleotideMatches(UpperChar(string1[k]), UpperChar(string2[k]))})

\* A call with a shorter first argument has returned a count over the
\* prefix, every position of which matched.
C8_Witness ==
    /\ fm_pc = "returned"
    /\ Len(string1) < Len(string2)
    /\ Len(string1) > 0
    /\ matching_nucleotides = Len(string1)

===========================================================================
